---- MODULE Spec2Model ----
(***************************************************************************)
(* A model of the asset transformation engine (Transformation, Pipeline,   *)
(* finalize, MutableAsset) of src/unnamed/part_000.                        *)
(*                                                                         *)
(* Three specifications share the definitions:                             *)
(*   SpecP  one Pipeline.transform(initialAsset) invocation, over every    *)
(*          pipeline of at most MaxStages stages of the catalogue;         *)
(*   Spec   Transformation.run(), MaxRuns times in a row on one artifact   *)
(*          cache, with the recursion of runPipeline as a call stack;      *)
(*   SpecS  one summarizeRequest(fs, req) call, over every division of a   *)
(*          file into at most MaxChunks chunks around BUFFER_LIMIT.        *)
(***************************************************************************)
EXTENDS Integers, Sequences, FiniteSets, TLC

\* ---------------------------------------------------------------- bounds
MaxStages == 2
MaxRuns == 2
MaxDepth == 3

\* ---------------------------------------------------------------- values
Types == {"ts", "js"}

Other(type) == IF type = "ts" THEN "js" ELSE "ts"

\* asset.ast === null
NoAst == [dialect |-> "none", tree |-> <<>>]

\* asset.map == null
NoMap == <<>>

\* md5FromReadableStream / md5FromString over the content: injective
Hash(content) == <<"md5">> \o content

\* A transformer plugin is the subset of the hooks it provides and what its
\* hooks do. declares/accepts: canReuseAST and the dialects it returns true
\* for; parse: the dialect of the AST parse() returns ("none": no parse hook);
\* setsAst: transform() assigns asset.ast when the asset has none; retypes:
\* transform() assigns asset.type; results: what transform() returns, "view"
\* the MutableAsset it was given, "same"/"other" a new result descriptor of
\* the asset's type or of the other type; generate/post: the hook exists.
Transformer(name) ==
  CASE name = "parser" ->
         [declares |-> FALSE, accepts |-> {}, parse |-> "babel", setsAst |-> "none",
          retypes |-> FALSE, results |-> <<"view">>, generate |-> TRUE, post |-> FALSE]
    [] name = "babel" ->
         [declares |-> TRUE, accepts |-> {"babel"}, parse |-> "none", setsAst |-> "babel",
          retypes |-> FALSE, results |-> <<"view">>, generate |-> TRUE, post |-> FALSE]
    [] name = "postcss" ->
         [declares |-> TRUE, accepts |-> {"postcss"}, parse |-> "postcss", setsAst |-> "none",
          retypes |-> FALSE, results |-> <<"view">>, generate |-> TRUE, post |-> FALSE]
    [] name = "raw" ->
         [declares |-> FALSE, accepts |-> {}, parse |-> "none", setsAst |-> "none",
          retypes |-> FALSE, results |-> <<"view">>, generate |-> FALSE, post |-> FALSE]
    [] name = "nogen" ->
         [declares |-> FALSE, accepts |-> {}, parse |-> "html", setsAst |-> "none",
          retypes |-> FALSE, results |-> <<"view">>, generate |-> FALSE, post |-> FALSE]
    [] name = "fan" ->
         [declares |-> FALSE, accepts |-> {}, parse |-> "babel", setsAst |-> "none",
          retypes |-> FALSE, results |-> <<"view", "view">>, generate |-> TRUE, post |-> FALSE]
    [] name = "retype" ->
         [declares |-> FALSE, accepts |-> {}, parse |-> "none", setsAst |-> "none",
          retypes |-> TRUE, results |-> <<"view">>, generate |-> FALSE, post |-> FALSE]
    [] name = "split" ->
         [declares |-> TRUE, accepts |-> {"babel"}, parse |-> "babel", setsAst |-> "none",
          retypes |-> FALSE, results |-> <<"other", "view">>, generate |-> TRUE, post |-> FALSE]
    [] name = "emit" ->
         [declares |-> FALSE, accepts |-> {}, parse |-> "none", setsAst |-> "none",
          retypes |-> FALSE, results |-> <<"other">>, generate |-> FALSE, post |-> FALSE]
    [] name = "tsc" ->
         [declares |-> FALSE, accepts |-> {}, parse |-> "babel", setsAst |-> "none",
          retypes |-> TRUE, results |-> <<"view">>, generate |-> TRUE, post |-> FALSE]
    [] name = "post" ->
         [declares |-> FALSE, accepts |-> {}, parse |-> "none", setsAst |-> "none",
          retypes |-> FALSE, results |-> <<"view">>, generate |-> FALSE, post |-> TRUE]
    [] name = "postnull" ->
         [declares |-> FALSE, accepts |-> {}, parse |-> "none", setsAst |-> "none",
          retypes |-> FALSE, results |-> <<"view">>, generate |-> FALSE, post |-> TRUE]

\* the stages the pipelines of SpecP are made of
PipelineNames ==
  {"parser", "babel", "postcss", "raw", "nogen", "fan", "retype", "split", "emit", "tsc"}

\* the pipelines a parcel config of Spec gives a file extension
DriverPipelines ==
  {<<"emit">>, <<"retype">>, <<"post">>, <<"parser">>, <<"nogen">>, <<"tsc">>,
   <<"emit", "parser">>, <<"split", "post">>, <<"postnull">>}

\* the sequences over S of length 1..n
SeqsUpTo(S, n) == UNION {[1..m -> S] : m \in 1..n}

VARIABLES
  req,      \* the AssetRequest and options: [ext, inline, cacheOn]
  plan,     \* parcelConfig.getTransformerNames: file extension -> names
  cache,    \* the artifact cache: a set of [key, val]
  heap,     \* the InternalAssets of the current run, by id
  stack,    \* the runPipeline invocations in progress, innermost last
  pl,       \* the Pipeline.transform invocation in progress
  log,      \* every hook call and cache access so far, in order
  run,      \* the number of the current run() (0: none started)
  phase,    \* "idle" | "running" | "done" | "failed"
  results,  \* what each run() returned, by value
  done,     \* the runPipeline invocations that returned, as they were then
  configRequests,  \* this.configRequests of the Transformation of the current run
  sr,       \* the summarizeRequest call in progress
  np,       \* the loadNextPipeline call in progress
  shake     \* the treeShake(scope) call in progress

vars == <<req, plan, cache, heap, stack, pl, log, run, phase, results, done,
          configRequests, sr, np, shake>>

\* ------------------------------------------------------------ event log
\* a hook call of the Pipeline.transform in progress: the hook, the stage that
\* made the call and the transformer called, the asset and the AST it was
\* called with, and the asset's type when the call returned. gen: the stage
\* the generator called is bound to. A "child" event is createChildAsset:
\* asset is the new asset, from its parent, ast and type what it starts with.
Ev(ev, stage, name, asset, ast, gen, from, type) ==
  [ev |-> ev, run |-> run, pipe |-> pl.init, stage |-> stage, name |-> name,
   asset |-> asset, ast |-> ast, gen |-> gen, from |-> from, type |-> type]

\* an event of the driver, outside any Pipeline.transform
DEv(ev, init, asset) ==
  [ev |-> ev, run |-> run, pipe |-> init, stage |-> 0, name |-> "", asset |-> asset,
   ast |-> NoAst, gen |-> 0, from |-> 0, type |-> ""]

\* ------------------------------------------------- transformer hooks
\* transformer.parse(): an AST of the stage's dialect over the current content
ParseAst(dialect, name, content) ==
  [dialect |-> dialect, tree |-> content \o <<"ast", name>>]

\* transformer.generate(): {code, map} emitted from the asset's AST
GenCode(name, ast) == ast.tree \o <<"gen", name>>

GenMap(name, ast) == ast.tree \o <<"map", name>>

\* transformer.canReuseAST({ast, options})
CanReuseAST(t, ast) == ast.dialect \in t.accepts

\* InternalAsset.createChildAsset(result): a new, uncommitted asset
CreateChildAsset(result) ==
  [type |-> result.type, content |-> result.content, ast |-> result.ast,
   map |-> result.map, hash |-> Hash(result.content), committed |-> FALSE]

\* normalizeAssets: a returned MutableAsset becomes a result descriptor read
\* from its backing asset; a descriptor is taken as it is
NormalizeAssets(kind, asset, name) ==
  IF kind = "view"
  THEN [type |-> asset.type, content |-> asset.content, ast |-> asset.ast, map |-> asset.map]
  ELSE [type |-> IF kind = "same" THEN asset.type ELSE Other(asset.type),
        content |-> Append(asset.content, name), ast |-> NoAst, map |-> NoMap]

\* MutableAsset: set ast(ast) { this.#asset.ast = ast }
SetAst(asset, ast) == [asset EXCEPT !.ast = ast]

\* MutableAsset: set type(type) { this.#asset.type = type }
SetType(asset, type) == [asset EXCEPT !.type = type]

\* a runTransformer that regenerates whatever canReuseAST answers
MustRegenerateAlways(asset, t, gen) == asset.ast # NoAst /\ gen # 0

\* the test of runTransformer that sends an AST back through generate
MustRegenerate(asset, t, gen) ==
  /\ asset.ast # NoAst
  /\ (~t.declares \/ ~CanReuseAST(t, asset.ast))
  /\ gen # 0

\* runTransformer, lines 410-419, on the call as it stands (s: whether it
\* threw, the asset, the hook calls made, the results): an AST the
\* transformer cannot reuse goes back through the remembered generate, which
\* throws when that transformer has no generate method
RegenerateCode(s, a, k, name, t, genName, gen) ==
  LET need == MustRegenerate(s.asset, t, gen)
      ev0 == IF s.asset.ast # NoAst /\ t.declares
             THEN <<Ev("canReuseAST", k, name, a, s.asset.ast, 0, 0, s.asset.type)>> ELSE <<>>
      ev1 == IF need
             THEN <<Ev("generate", k, genName, a, s.asset.ast, gen, 0, s.asset.type)>>
             ELSE <<>>
  IN  IF ~need THEN [s EXCEPT !.events = ev0]
      ELSE IF ~Transformer(genName).generate
           THEN [s EXCEPT !.threw = TRUE, !.events = ev0 \o ev1]
           ELSE [s EXCEPT !.asset = [@ EXCEPT !.content = GenCode(genName, s.asset.ast),
                                              !.ast = NoAst],
                          !.events = ev0 \o ev1]

\* runTransformer, lines 421-429: parse if there is no AST and a parse hook
ParseCode(s, a, k, name, t) ==
  IF ~s.threw /\ s.asset.ast = NoAst /\ t.parse # "none"
  THEN [s EXCEPT !.asset = SetAst(@, ParseAst(t.parse, name, s.asset.content)),
                 !.events = @ \o <<Ev("parse", k, name, a, s.asset.ast, 0, 0, s.asset.type)>>]
  ELSE s

\* runTransformer, lines 432-440: transform() is called with the asset, may
\* assign its ast and its type, and its results are normalized
TransformCode(s, a, k, name, t) ==
  LET withAst == IF s.asset.ast = NoAst /\ t.setsAst # "none"
                 THEN SetAst(s.asset, ParseAst(t.setsAst, name, s.asset.content))
                 ELSE s.asset
      type == IF t.retypes THEN Other(s.asset.type) ELSE s.asset.type
  IN  IF s.threw THEN s
      ELSE [threw |-> FALSE,
            asset |-> SetType(withAst, type),
            events |-> s.events \o <<Ev("transform", k, name, a, s.asset.ast, 0, 0, type)>>,
            results |-> [i \in 1..Len(t.results) |->
                           NormalizeAssets(t.results[i], SetType(withAst, type), name)]]

\* Pipeline.runTransformer(asset, transformer, config) on asset a of heap h by
\* stage k of the invocation p: whether it threw, the asset as the hooks left
\* it, the hook calls it made, and the normalized results of transform()
RunTransformer(h, a, k, p) ==
  TransformCode(
    ParseCode(
      RegenerateCode([threw |-> FALSE, asset |-> h[a], events |-> <<>>, results |-> <<>>],
                     a, k, p.pipe[k], Transformer(p.pipe[k]),
                     IF p.gen = 0 THEN p.pipe[k] ELSE p.pipe[p.gen], p.gen),
      a, k, p.pipe[k], Transformer(p.pipe[k])),
    a, k, p.pipe[k], Transformer(p.pipe[k]))

\* --------------------------------------------------- Pipeline.transform
IdlePipeline ==
  [pc |-> "idle", pipe |-> <<>>, init |-> 0, initialType |-> "", k |-> 0, j |-> 0,
   inputAssets |-> <<>>, resultingAssets |-> <<>>, finalAssets |-> <<>>, gen |-> 0,
   post |-> [name |-> "none", asset |-> 0], inflight |-> {}, out |-> <<>>]

\* transform(initialAsset) up to the first stage
BeginTransform(pipe, a, type) ==
  [IdlePipeline EXCEPT !.pc = "stages", !.pipe = pipe, !.init = a, !.initialType = type,
                       !.k = 1, !.j = 1, !.inputAssets = <<a>>]

\* a stage loop that sets no asset aside
DivergedNever(asset, initialType) == FALSE

\* transform's test of an asset of the working set: asset.type !== initialType
Diverged(asset, initialType) == asset.type # initialType

\* the asset the stage loop is at has left the pipeline's type: set it aside
StageSkip ==
  /\ pl.pc = "stages" /\ pl.k <= Len(pl.pipe) /\ pl.j <= Len(pl.inputAssets)
  /\ Diverged(heap[pl.inputAssets[pl.j]], pl.initialType)
  /\ pl' = [pl EXCEPT !.finalAssets = Append(@, pl.inputAssets[pl.j]), !.j = @ + 1]
  /\ UNCHANGED <<req, plan, cache, heap, stack, log, run, phase, results, done, configRequests, sr, np, shake>>

\* a runTransformer that keeps the generator of the first stage that ran
RememberGenerateFirst(gen, k) == IF gen = 0 THEN k ELSE gen

\* this.generate = async input => ...: assigned by every runTransformer whose
\* transform returned, over the transformer of that stage, whether or not it
\* has a generate method
RememberGenerate(gen, k) == k

\* the stage is applied to the asset and its results become child assets
StageRun ==
  /\ pl.pc = "stages" /\ pl.k <= Len(pl.pipe) /\ pl.j <= Len(pl.inputAssets)
  /\ ~Diverged(heap[pl.inputAssets[pl.j]], pl.initialType)
  /\ \E r \in {RunTransformer(heap, pl.inputAssets[pl.j], pl.k, pl)} :
     LET a == pl.inputAssets[pl.j]
         n == Len(heap)
         kids == [i \in 1..Len(r.results) |-> CreateChildAsset(r.results[i])]
         born == [i \in 1..Len(r.results) |->
                    Ev("child", pl.k, pl.pipe[pl.k], n + i, r.results[i].ast, 0, a,
                       r.results[i].type)]
     IN  IF r.threw
         THEN /\ pl' = [pl EXCEPT !.pc = "failed"]
              /\ log' = log \o r.events
              /\ heap' = heap
         ELSE /\ heap' = [heap EXCEPT ![a] = r.asset] \o kids
              /\ log' = log \o r.events \o born
              /\ pl' = [pl EXCEPT
                          !.resultingAssets = @ \o [i \in 1..Len(kids) |-> n + i],
                          !.j = @ + 1,
                          !.gen = RememberGenerate(pl.gen, pl.k),
                          !.post = IF Transformer(pl.pipe[pl.k]).post
                                   THEN [name |-> pl.pipe[pl.k], asset |-> a] ELSE @]
  /\ UNCHANGED <<req, plan, cache, stack, run, phase, results, done, configRequests, sr, np, shake>>

\* a stage loop that takes the results of the stage before last first
WorkingSetReversed(resultingAssets) ==
  [i \in 1..Len(resultingAssets) |-> resultingAssets[Len(resultingAssets) + 1 - i]]

\* inputAssets = resultingAssets: the working set of the next stage is the
\* list the children were pushed onto, in that order
WorkingSet(resultingAssets) == resultingAssets

\* the stage has seen its whole working set: the next stage works on its results
StageNext ==
  /\ pl.pc = "stages" /\ pl.k <= Len(pl.pipe) /\ pl.j > Len(pl.inputAssets)
  /\ pl' = [pl EXCEPT !.k = @ + 1, !.j = 1, !.inputAssets = WorkingSet(pl.resultingAssets),
                      !.resultingAssets = IF pl.k < Len(pl.pipe) THEN <<>> ELSE @]
  /\ UNCHANGED <<req, plan, cache, heap, stack, log, run, phase, results, done, configRequests, sr, np, shake>>

\* a finalize that never calls generate
FinalizesNever(asset, gen) == FALSE

\* finalize(asset, generate) calls generate for an asset iff it has an AST
\* and a generator is remembered
Finalizes(asset, gen) == asset.ast # NoAst /\ gen # 0

\* a transform that returns the results of the last stage twice
FinalListTwice(finalAssets, resultingAssets) ==
  finalAssets \o resultingAssets \o resultingAssets

\* finalAssets = finalAssets.concat(resultingAssets): the assets set aside,
\* then the results of the last stage
FinalList(finalAssets, resultingAssets) == finalAssets \o resultingAssets

\* finalAssets.map(asset => finalize(asset, this.generate)): every generate
\* call is made before any of them completes
FinalizeStart ==
  /\ pl.pc = "stages" /\ pl.k > Len(pl.pipe)
  /\ LET all == FinalList(pl.finalAssets, pl.resultingAssets)
         todo == {i \in 1..Len(all) : Finalizes(heap[all[i]], pl.gen)}
         genName == pl.pipe[pl.gen]
         calls == [i \in 1..Len(all) |->
                     IF i \in todo
                     THEN <<Ev("generate", Len(pl.pipe) + 1, genName, all[i],
                               heap[all[i]].ast, pl.gen, 0, heap[all[i]].type)>>
                     ELSE <<>>]
         Flat[i \in 0..Len(all)] == IF i = 0 THEN <<>> ELSE Flat[i - 1] \o calls[i]
     IN  /\ log' = log \o Flat[Len(all)]
         /\ IF todo # {} /\ ~Transformer(genName).generate
            THEN pl' = [pl EXCEPT !.pc = "failed", !.finalAssets = all]
            ELSE pl' = [pl EXCEPT !.pc = "finalizing", !.finalAssets = all,
                                  !.inflight = {all[i] : i \in todo}]
  /\ UNCHANGED <<req, plan, cache, heap, stack, run, phase, results, done, configRequests, sr, np, shake>>

\* one generate call completes: finalize writes the code and the map
FinalizeComplete ==
  /\ pl.pc = "finalizing"
  /\ \E a \in pl.inflight :
       /\ heap' = [heap EXCEPT ![a].content = GenCode(pl.pipe[pl.gen], heap[a].ast),
                               ![a].map = GenMap(pl.pipe[pl.gen], heap[a].ast)]
       /\ pl' = [pl EXCEPT !.inflight = @ \ {a}]
  /\ UNCHANGED <<req, plan, cache, stack, log, run, phase, results, done, configRequests, sr, np, shake>>

\* Promise.all resolves: transform returns the finalized assets
TransformReturn ==
  /\ pl.pc = "finalizing" /\ pl.inflight = {}
  /\ pl' = [pl EXCEPT !.pc = "returned", !.out = pl.finalAssets]
  /\ UNCHANGED <<req, plan, cache, heap, stack, log, run, phase, results, done, configRequests, sr, np, shake>>

\* Transformation.loadAsset: the asset of the request, with no AST
LoadAsset(ext) ==
  [type |-> ext, content |-> <<"src">>, ast |-> NoAst, map |-> NoMap,
   hash |-> Hash(<<"src">>), committed |-> FALSE]

\* ------------------------------------------------------------ treeShake
\* (src/packages/shared/scope-hoisting/src/shake.js)
\* the names bound in the scope
ShakeNames == {"a", "b"}

\* the number of statements of the program that refer to the bindings
MaxStmts == 2

\* the frames of getUnusedBinding the engine's call stack holds: a call that
\* needs one more throws RangeError. getUnusedBinding does not change the
\* scope, so a chain of calls longer than the number of bindings is at a
\* binding for the second time and goes on for ever
MaxCallStack == 3

\* The statements that refer to a binding:
\*   "export"  x.p = other   (other "": no identifier on the right)
\*   "wild"    $parcel$exportWildcard(x, other); late: the second argument
\*             was registered with its binding after the crawl
\*   "use"     any other use of x
ShakeStmts ==
  {[kind |-> "export", x |-> x, other |-> o, late |-> FALSE] :
     x \in ShakeNames, o \in {""} \cup ShakeNames}
    \cup {[kind |-> "wild", x |-> x, other |-> o, late |-> l] :
            x \in ShakeNames, o \in ShakeNames, l \in BOOLEAN}
    \cup {[kind |-> "use", x |-> x, other |-> "", late |-> FALSE] : x \in ShakeNames}

\* the programs of at most n such statements
Programs(n) ==
  {program \in UNION {[1..m -> ShakeStmts] : m \in 0..n} :
     \A i \in 1..Len(program) : program[i].kind = "export" => program[i].other # program[i].x}

\* A reference of binding name, by the place of its path:
\*   "export"  name.p = other      (isExportAssignment)
\*   "rhs"     other.p = name
\*   "wild0"   $parcel$exportWildcard(name, other)
\*   "wild1"   $parcel$exportWildcard(other, name)
\*   "use"     any other use of name
\* the references a statement holds to name, in source order, registered at
\* the crawl (late FALSE) or after it (late TRUE)
RefsIn(stmt, name, late) ==
  (IF stmt.x = name /\ ~late
   THEN <<[kind |-> IF stmt.kind = "wild" THEN "wild0" ELSE stmt.kind, other |-> stmt.other]>>
   ELSE <<>>)
  \o (IF stmt.other = name /\ stmt.late = late
      THEN <<[kind |-> IF stmt.kind = "wild" THEN "wild1" ELSE "rhs", other |-> stmt.x]>>
      ELSE <<>>)

\* binding.referencePaths, in the order of registration: the crawl registers
\* the references in source order, and one registered later is appended
ReferencePaths(program, name) ==
  LET F[i \in 0..Len(program)] ==
        IF i = 0 THEN <<>> ELSE F[i - 1] \o RefsIn(program[i], name, FALSE)
      G[i \in 0..Len(program)] ==
        IF i = 0 THEN <<>> ELSE G[i - 1] \o RefsIn(program[i], name, TRUE)
  IN  F[Len(program)] \o G[Len(program)]

\* the scopes treeShake is called on: for each name whether isPure(binding)
\* holds and its referencePaths; no constantViolations
Scopes(n) ==
  {[x \in ShakeNames |->
      [present |-> TRUE, pure |-> pure[x], refs |-> ReferencePaths(program, x)]] :
     program \in Programs(n), pure \in [ShakeNames -> BOOLEAN]}

\* no treeShake call in progress
IdleShake ==
  [pc |-> "idle", bindings |-> <<>>, order |-> <<>>, keys |-> <<>>, pos |-> 0,
   removed |-> FALSE, before |-> 0, passes |-> 0]

\* Object.keys(scope.bindings): the names still bound, in insertion order
Keys(bindings, order) == SelectSeq(order, LAMBDA x : bindings[x].present)

\* getUnusedBinding(path, name) as frame number depth of the call stack:
\* "binding" when it returns the binding, "null" when it returns null,
\* "overflow" when the chain of calls through isUnusedWildcard does not fit
\* the stack. Bailout is referencePaths.some(...) from index i on: "true",
\* "false" or "overflow"
RECURSIVE GetUnusedBinding(_, _, _)
RECURSIVE Bailout(_, _, _, _)
Bailout(bindings, name, i, depth) ==
  LET refs == bindings[name].refs
  IN  IF i > Len(refs) THEN "false"
      ELSE IF refs[i].kind = "export" THEN Bailout(bindings, name, i + 1, depth)
      ELSE IF refs[i].kind = "wild0"
           THEN LET used == GetUnusedBinding(bindings, refs[i].other, depth + 1)
                IN  IF used = "overflow" THEN "overflow"
                    ELSE IF used = "null" THEN Bailout(bindings, name, i + 1, depth)
                    ELSE "true"
      ELSE "true"

GetUnusedBinding(bindings, name, depth) ==
  IF depth > MaxCallStack THEN "overflow"
  ELSE IF ~bindings[name].present THEN "null"
  ELSE IF bindings[name].refs = <<>> /\ bindings[name].pure THEN "binding"
  ELSE LET bailout == Bailout(bindings, name, 1, depth)
       IN  IF bailout = "overflow" THEN "overflow"
           ELSE IF bailout = "false" /\ bindings[name].pure THEN "binding"
           ELSE "null"

\* binding.path.remove(), referencePaths.forEach(remove) and
\* scope.removeBinding(name): the statements the references are in go, and
\* removeReference takes the other identifier of each out of the
\* referencePaths of its binding
RemoveBinding(bindings, name) ==
  [x \in ShakeNames |->
     IF x = name THEN [bindings[x] EXCEPT !.present = FALSE, !.refs = <<>>]
     ELSE [bindings[x] EXCEPT
             !.refs = SelectSeq(@, LAMBDA r : ~(r.kind \in {"rhs", "wild1"} /\ r.other = name))]]

\* do { removed = false; Object.keys(scope.bindings).forEach(...
PassBegin ==
  /\ shake.pc = "pass"
  /\ shake' = [shake EXCEPT !.pc = "each", !.removed = FALSE,
                            !.keys = Keys(shake.bindings, shake.order), !.pos = 1,
                            !.before = Len(Keys(shake.bindings, shake.order)),
                            !.passes = @ + 1]
  /\ UNCHANGED <<req, plan, cache, heap, stack, pl, log, run, phase, results, done,
                 configRequests, sr, np>>

\* the callback on a name: getUnusedBinding returns null and the binding stays
VisitKeep ==
  /\ shake.pc = "each" /\ shake.pos <= Len(shake.keys)
  /\ GetUnusedBinding(shake.bindings, shake.keys[shake.pos], 1) = "null"
  /\ shake' = [shake EXCEPT !.pos = @ + 1]
  /\ UNCHANGED <<req, plan, cache, heap, stack, pl, log, run, phase, results, done,
                 configRequests, sr, np>>

\* the callback on a name: the binding is unused and is removed
VisitRemove ==
  /\ shake.pc = "each" /\ shake.pos <= Len(shake.keys)
  /\ GetUnusedBinding(shake.bindings, shake.keys[shake.pos], 1) = "binding"
  /\ shake' = [shake EXCEPT !.pos = @ + 1, !.removed = TRUE,
                            !.bindings = RemoveBinding(@, shake.keys[shake.pos])]
  /\ UNCHANGED <<req, plan, cache, heap, stack, pl, log, run, phase, results, done,
                 configRequests, sr, np>>

\* the callback on a name: getUnusedBinding calls itself through
\* isUnusedWildcard until the call stack is full, and treeShake throws
VisitOverflow ==
  /\ shake.pc = "each" /\ shake.pos <= Len(shake.keys)
  /\ GetUnusedBinding(shake.bindings, shake.keys[shake.pos], 1) = "overflow"
  /\ shake' = [shake EXCEPT !.pc = "threw"]
  /\ UNCHANGED <<req, plan, cache, heap, stack, pl, log, run, phase, results, done,
                 configRequests, sr, np>>

\* } while (removed): a binding was removed, one more pass
PassAgain ==
  /\ shake.pc = "each" /\ shake.pos > Len(shake.keys) /\ shake.removed
  /\ shake' = [shake EXCEPT !.pc = "pass"]
  /\ UNCHANGED <<req, plan, cache, heap, stack, pl, log, run, phase, results, done,
                 configRequests, sr, np>>

\* } while (removed): nothing was removed, treeShake returns
PassLast ==
  /\ shake.pc = "each" /\ shake.pos > Len(shake.keys) /\ ~shake.removed
  /\ shake' = [shake EXCEPT !.pc = "done"]
  /\ UNCHANGED <<req, plan, cache, heap, stack, pl, log, run, phase, results, done,
                 configRequests, sr, np>>

\* ----------------------------------------------------- summarizeRequest
\* const BUFFER_LIMIT = 5000000
BUFFER_LIMIT == 5000000

\* the lengths of the chunks a read stream delivers: around the limit
ChunkSizes == {0, 1, BUFFER_LIMIT - 1, BUFFER_LIMIT, BUFFER_LIMIT + 1}

\* a chunk is a run of len bytes, told apart by tag; its bytes as a sequence
\* of runs: none for an empty chunk
Bytes(chunk) == IF chunk.len = 0 THEN <<>> ELSE <<chunk>>

\* the bytes of a sequence of chunks, in order
BytesOf(chunks) ==
  LET F[i \in 0..Len(chunks)] == IF i = 0 THEN <<>> ELSE F[i - 1] \o Bytes(chunks[i])
  IN  F[Len(chunks)]

\* the number of bytes of a sequence of chunks
SizeOf(chunks) ==
  LET F[i \in 0..Len(chunks)] == IF i = 0 THEN 0 ELSE F[i - 1] + chunks[i].len
  IN  F[Len(chunks)]

\* the files and inline codes of a request: every division into chunks
Files(n) ==
  UNION {{[i \in 1..m |-> [tag |-> i, len |-> lens[i]]] : lens \in [1..m -> ChunkSizes]} :
           m \in 0..n}

\* no summarizeRequest call in progress
IdleSummary ==
  [pc |-> "idle", file |-> <<>>, pos |-> 0, kind |-> "none", buffer |-> <<>>,
   size |-> 0, fed |-> <<>>, hash |-> <<>>]

\* summarizeRequest(fs, req) of a file request up to the first chunk:
\* content = Buffer.from([]), size = 0
BeginSummary(file) ==
  [IdleSummary EXCEPT !.pc = "reading", !.file = file, !.kind = "buffer"]

\* a tap that switches to the stream as soon as the limit is reached
OverLimitAt(size) == size >= BUFFER_LIMIT

\* the tap's test: size > BUFFER_LIMIT
OverLimit(size) == size > BUFFER_LIMIT

\* a stream that does not pass the chunk on to the hasher once the content is
\* no longer buffered
HashUpdateBuffered(fed, chunk, kind) == IF kind = "buffer" THEN fed \o Bytes(chunk) ELSE fed

\* md5FromReadableStream over the tapped stream: the TapStream passes every
\* chunk on, whatever the tap did with it
HashUpdate(fed, chunk, kind) == fed \o Bytes(chunk)

\* the tap on a chunk while content is a Buffer and the size stays in the
\* limit: content = Buffer.concat([content, buf])
TapBuffer ==
  /\ sr.pc = "reading" /\ sr.pos < Len(sr.file) /\ sr.kind = "buffer"
  /\ LET buf == sr.file[sr.pos + 1]
         size == sr.size + buf.len
     IN  /\ ~OverLimit(size)
         /\ sr' = [sr EXCEPT !.pos = @ + 1, !.size = size,
                             !.buffer = @ \o Bytes(buf),
                             !.fed = HashUpdate(@, buf, sr.kind)]
  /\ UNCHANGED <<req, plan, cache, heap, stack, pl, log, run, phase, results, done,
                 configRequests, np, shake>>

\* the tap on the chunk that puts the size over the limit: content becomes
\* fs.createReadStream(req.filePath)
TapOverflow ==
  /\ sr.pc = "reading" /\ sr.pos < Len(sr.file) /\ sr.kind = "buffer"
  /\ LET buf == sr.file[sr.pos + 1]
         size == sr.size + buf.len
     IN  /\ OverLimit(size)
         /\ sr' = [sr EXCEPT !.pos = @ + 1, !.size = size,
                             !.kind = "stream", !.buffer = <<>>,
                             !.fed = HashUpdate(@, buf, sr.kind)]
  /\ UNCHANGED <<req, plan, cache, heap, stack, pl, log, run, phase, results, done,
                 configRequests, np, shake>>

\* the tap on a chunk when content is no Buffer: only the size grows
TapStreamed ==
  /\ sr.pc = "reading" /\ sr.pos < Len(sr.file) /\ sr.kind # "buffer"
  /\ LET buf == sr.file[sr.pos + 1]
     IN  sr' = [sr EXCEPT !.pos = @ + 1, !.size = @ + buf.len,
                          !.fed = HashUpdate(@, buf, sr.kind)]
  /\ UNCHANGED <<req, plan, cache, heap, stack, pl, log, run, phase, results, done,
                 configRequests, np, shake>>

\* the stream ends: the hash is that of what the hasher was fed
StreamEnd ==
  /\ sr.pc = "reading" /\ sr.pos = Len(sr.file)
  /\ sr' = [sr EXCEPT !.pc = "done", !.hash = Hash(sr.fed)]
  /\ UNCHANGED <<req, plan, cache, heap, stack, pl, log, run, phase, results, done,
                 configRequests, np, shake>>

\* the request carries code: content = code, hash = md5FromString(code),
\* size = Buffer.from(code).length
SummarizeCode ==
  /\ sr.pc = "code"
  /\ sr' = [sr EXCEPT !.pc = "done", !.kind = "code", !.buffer = BytesOf(sr.file),
                      !.size = SizeOf(sr.file), !.hash = Hash(BytesOf(sr.file))]
  /\ UNCHANGED <<req, plan, cache, heap, stack, pl, log, run, phase, results, done,
                 configRequests, np, shake>>

\* ------------------------------------------------------ Transformation
\* A file path is a sequence of characters; a run of letters that names a
\* type ("ts", "js") is kept as one character, no type holding "." or "/".
\* the request's file path; every asset of the run inherits it
FilePath == <<"a", ".", req.ext>>

\* the index of the last occurrence of character c in path, 0 when there is none
LastIndexOf(path, c) ==
  IF \E i \in 1..Len(path) : path[i] = c
  THEN CHOOSE i \in 1..Len(path) : path[i] = c /\ \A j \in (i + 1)..Len(path) : path[j] # c
  ELSE 0

\* path.extname(path) of a path that does not end in "/": from the last "."
\* of the last segment to the end; empty when the segment has no ".", when
\* its only "." is its first character, and for the segment ".."
Extname(path) ==
  LET start == LastIndexOf(path, "/") + 1
      dot == LastIndexOf(path, ".")
  IN  IF dot < start \/ dot = start THEN <<>>
      ELSE IF dot = start + 1 /\ dot = Len(path) /\ path[start] = "." THEN <<>>
      ELSE SubSeq(path, dot, Len(path))

\* s.slice(0, -n): all but the last n characters; -0 is 0, so slice(0, -0)
\* is slice(0, 0), the empty string
SliceOff(s, n) == IF n = 0 THEN <<>> ELSE SubSeq(s, 1, Len(s) - n)

\* loadNextPipeline: filePath.slice(0, -path.extname(filePath).length) + '.' + nextType
NextFilePath(filePath, nextType) ==
  SliceOff(filePath, Len(Extname(filePath))) \o <<".", nextType>>

\* parcelConfig.getTransformerNames(filePath): the pipelines are configured
\* by globs "*.type", so the last character of the path decides
PathType(filePath) == filePath[Len(filePath)]

\* loadPipeline(filePath): the transformer names the parcel config gives the path
LoadPipeline(filePath) == plan[PathType(filePath)]

\* Pipeline constructor: this.id = names.join(':')
PipelineId(names) ==
  LET Join[i \in 1..Len(names)] ==
        IF i = 1 THEN names[1] ELSE Join[i - 1] \o ":" \o names[i]
  IN  Join[Len(names)]

\* a loadNextPipeline that does not compare the ids
LoadNextPipelineAlways(filePath, nextType, currentPipeline) ==
  LoadPipeline(NextFilePath(filePath, nextType))

\* loadNextPipeline: the pipeline of the synthetic path, or none (<<>>) when
\* its id is the current pipeline's
LoadNextPipeline(filePath, nextType, currentPipeline) ==
  LET nextPipeline == LoadPipeline(NextFilePath(filePath, nextType))
  IN  IF PipelineId(nextPipeline) = PipelineId(currentPipeline) THEN <<>> ELSE nextPipeline

\* no loadNextPipeline call in progress
IdleNext ==
  [pc |-> "idle", filePath |-> <<>>, nextType |-> "", current |-> <<>>,
   loaded |-> <<>>, result |-> <<>>]

\* loadNextPipeline(filePath, nextType, currentPipeline): the next pipeline's
\* id is the current one's and null is returned
NextPipelineSame ==
  /\ np.pc = "call"
  /\ LoadNextPipeline(np.filePath, np.nextType, np.current) = <<>>
  /\ np' = [np EXCEPT !.pc = "returned", !.result = <<>>,
                       !.loaded = NextFilePath(np.filePath, np.nextType)]
  /\ UNCHANGED <<req, plan, cache, heap, stack, pl, log, run, phase, results, done,
                 configRequests, sr, shake>>

\* loadNextPipeline(filePath, nextType, currentPipeline): the pipeline loaded
\* for the next path is returned
NextPipelineOther ==
  /\ np.pc = "call"
  /\ LoadNextPipeline(np.filePath, np.nextType, np.current) # <<>>
  /\ np' = [np EXCEPT !.pc = "returned",
                       !.result = LoadNextPipeline(np.filePath, np.nextType, np.current),
                       !.loaded = NextFilePath(np.filePath, np.nextType)]
  /\ UNCHANGED <<req, plan, cache, heap, stack, pl, log, run, phase, results, done,
                 configRequests, sr, shake>>

\* the plugins that have a loadConfig method
HasLoadConfig(name) == name \in {"tsc", "post"}

\* a this.loadConfig that calls the host without recording the request
LoadConfigUnrecorded(cr, configRequest, r, init) ==
  [configRequests |-> cr,
   events |-> <<[ev |-> "loadConfig", run |-> r, pipe |-> init, stage |-> 0,
                 name |-> configRequest.plugin, asset |-> 0, ast |-> NoAst, gen |-> 0,
                 from |-> 0, type |-> PathType(configRequest.filePath)]>>]

\* this.loadConfig(configRequest) of the constructor: the request is pushed
\* onto this.configRequests and the host's loadConfig is called with it
LoadConfig(cr, configRequest, r, init) ==
  [configRequests |-> Append(cr, configRequest),
   events |-> <<[ev |-> "loadConfig", run |-> r, pipe |-> init, stage |-> 0,
                 name |-> configRequest.plugin, asset |-> 0, ast |-> NoAst, gen |-> 0,
                 from |-> 0, type |-> PathType(configRequest.filePath)]>>]

\* the config loads of loadPipeline(filePath): the parcel config, then
\* loadTransformerConfig for every plugin of its devDeps that has loadConfig
LoadPipelineConfigs(cr, filePath, r, init) ==
  LET names == LoadPipeline(filePath)
      first == LoadConfig(cr, [filePath |-> filePath, plugin |-> "parcel"], r, init)
      F[i \in 0..Len(names)] ==
        IF i = 0 THEN first
        ELSE IF HasLoadConfig(names[i])
             THEN LET c == LoadConfig(F[i - 1].configRequests,
                                      [filePath |-> filePath, plugin |-> names[i]], r, init)
                  IN  [configRequests |-> c.configRequests,
                       events |-> F[i - 1].events \o c.events]
             ELSE F[i - 1]
  IN  F[Len(names)]

\* getCacheKey(assets, configs): md5FromObject is injective over its argument;
\* the parcel config's devDeps are the plugins of the pipeline; env and
\* impactfulOptions are those of the request, the same in every key
GetCacheKey(h, ids, pipe) ==
  [assets |-> [i \in 1..Len(ids) |->
                 [filePath |-> FilePath, type |-> h[ids[i]].type, hash |-> h[ids[i]].hash]],
   configs |-> [resultHash |-> "parcelrc", devDeps |-> pipe]]

CacheHas(c, key) == \E e \in c : e.key = key

\* cache.get(cacheKey)
CacheGet(c, key) == (CHOOSE e \in c : e.key = key).val

\* cache.set(cacheKey, assets): last writer wins
CacheSet(c, key, val) == {e \in c : e.key # key} \cup {[key |-> key, val |-> val]}

\* a readFromCache that reads whatever the options and the request say
CacheReadableAlways == TRUE

\* readFromCache returns null without looking when the cache is off or the
\* request carries code
CacheReadable == ~(req.cacheOn = FALSE \/ req.inline)

\* readFromCache(assets, configs): whether it hit, the assets it returned, and
\* the cache accesses and getCode() calls it made
ReadFromCache(h, ids, pipe, init) ==
  LET key == GetCacheKey(h, ids, pipe)
      hit == CacheReadable /\ CacheHas(cache, key)
  IN  [looked |-> CacheReadable,
       key |-> key,
       hit |-> hit,
       val |-> IF hit THEN CacheGet(cache, key) ELSE <<>>,
       events |-> IF ~CacheReadable THEN <<>>
                  ELSE <<DEv("cacheGet", init, 0)>> \o
                       (IF hit THEN [i \in 1..Len(ids) |-> DEv("getCode", init, ids[i])]
                        ELSE <<>>)]

\* InternalAsset.commit(optionsHash): the content goes to the blob cache and
\* the asset is frozen
Commit(asset) == [asset EXCEPT !.committed = TRUE]

\* a writeToCache that sets the entry without committing the assets
WriteToCacheUncommitted(h, ids, pipe, init) ==
  LET key == GetCacheKey(h, ids, pipe)
  IN  [heap |-> h,
       key |-> key,
       cache |-> CacheSet(cache, key, [i \in 1..Len(ids) |-> h[ids[i]]]),
       events |-> <<DEv("cacheSet", init, 0)>>]

\* writeToCache(assets, configs): the heap and the cache it leaves
WriteToCache(h, ids, pipe, init) ==
  LET key == GetCacheKey(h, ids, pipe)
      h2 == [a \in 1..Len(h) |->
               IF \E i \in 1..Len(ids) : ids[i] = a THEN Commit(h[a]) ELSE h[a]]
  IN  [heap |-> h2,
       key |-> key,
       cache |-> CacheSet(cache, key, [i \in 1..Len(ids) |-> h2[ids[i]]]),
       events |-> [i \in 1..Len(ids) |-> DEv("commit", init, ids[i])]
                  \o <<DEv("cacheSet", init, 0)>>]

\* a writeToCache that calls cache.set before it awaits the commits
WriteToCacheSetFirst(h, ids, pipe, init, failed) ==
  [heap |-> [a \in 1..Len(h) |->
               IF \E i \in 1..Len(ids) : ids[i] = a /\ i \notin failed
               THEN Commit(h[a]) ELSE h[a]],
   cache |-> CacheSet(cache, GetCacheKey(h, ids, pipe), [i \in 1..Len(ids) |-> h[ids[i]]]),
   events |-> <<DEv("cacheSet", init, 0)>> \o
              [i \in 1..Len(ids) |->
                 DEv(IF i \in failed THEN "commitFail" ELSE "commit", init, ids[i])]]

\* writeToCache(assets, configs) when the commits of the assets at the
\* indexes failed reject: Promise.all rejects and cache.set is not reached
WriteToCacheRejected(h, ids, pipe, init, failed) ==
  [heap |-> [a \in 1..Len(h) |->
               IF \E i \in 1..Len(ids) : ids[i] = a /\ i \notin failed
               THEN Commit(h[a]) ELSE h[a]],
   cache |-> cache,
   events |-> [i \in 1..Len(ids) |->
                 DEv(IF i \in failed THEN "commitFail" ELSE "commit", init, ids[i])]]

\* a runPipeline(pipeline, initialAsset) invocation at its first statement
Frame(pipe, a, type) ==
  [pc |-> "pre", pipe |-> pipe, init |-> a, initialType |-> type,
   looked |-> FALSE, preKey |-> GetCacheKey(<<>>, <<>>, <<>>), hit |-> FALSE,
   wrote |-> FALSE, assets |-> <<>>, i |-> 1, finalAssets |-> <<>>, route |-> <<>>,
   post |-> [name |-> "none", asset |-> 0]]

Top == stack[Len(stack)]

SetTop(f) == [stack EXCEPT ![Len(stack)] = f]

\* run(): loadAsset, loadPipeline, and the call of runPipeline
Run ==
  /\ phase \in {"idle", "done", "failed"} /\ run < MaxRuns
  /\ run' = run + 1
  /\ phase' = "running"
  /\ heap' = <<LoadAsset(req.ext)>>
  /\ stack' = <<Frame(LoadPipeline(FilePath), 1, req.ext)>>
  /\ LET c == LoadPipelineConfigs(<<>>, FilePath, run + 1, 1)
     IN  /\ configRequests' = c.configRequests
         /\ log' = log \o c.events
  /\ UNCHANGED <<req, plan, cache, pl, results, done, sr, np, shake>>

\* runPipeline: the pre-pipeline lookup hits and the cached assets are used
ReadPreHit ==
  /\ phase = "running" /\ stack # <<>> /\ Top.pc = "pre"
  /\ LET f == Top
         r == ReadFromCache(heap, <<f.init>>, f.pipe, f.init)
         n == Len(heap)
     IN  /\ r.hit
         /\ heap' = heap \o r.val
         /\ log' = log \o r.events
         /\ stack' = SetTop([f EXCEPT !.pc = "loop", !.looked = r.looked, !.preKey = r.key,
                                      !.hit = TRUE,
                                      !.assets = [i \in 1..Len(r.val) |-> n + i]])
  /\ UNCHANGED <<req, plan, cache, pl, run, phase, results, done, configRequests, sr, np, shake>>

\* runPipeline: the pre-pipeline lookup misses and pipeline.transform starts
ReadPreMiss ==
  /\ phase = "running" /\ stack # <<>> /\ Top.pc = "pre"
  /\ LET f == Top
         r == ReadFromCache(heap, <<f.init>>, f.pipe, f.init)
     IN  /\ ~r.hit
         /\ log' = log \o r.events
         /\ pl' = BeginTransform(f.pipe, f.init, f.initialType)
         /\ stack' = SetTop([f EXCEPT !.pc = "transform", !.looked = r.looked,
                                      !.preKey = r.key])
  /\ UNCHANGED <<req, plan, cache, heap, run, phase, results, done, configRequests, sr, np, shake>>

\* runPipeline: pipeline.transform returned; its assets are written to the cache
AfterTransform ==
  /\ phase = "running" /\ stack # <<>> /\ Top.pc = "transform" /\ pl.pc = "returned"
  /\ LET f == Top
         w == WriteToCache(heap, pl.out, f.pipe, f.init)
     IN  /\ heap' = w.heap
         /\ cache' = w.cache
         /\ log' = log \o w.events
         /\ stack' = SetTop([f EXCEPT !.pc = "loop", !.assets = pl.out, !.post = pl.post,
                                      !.wrote = TRUE])
         /\ pl' = IdlePipeline
  /\ UNCHANGED <<req, plan, run, phase, results, done, configRequests, sr, np, shake>>

\* an error of a hook is not caught: run() rejects
TransformThrows ==
  /\ phase = "running" /\ stack # <<>> /\ Top.pc = "transform" /\ pl.pc = "failed"
  /\ phase' = "failed"
  /\ stack' = <<>>
  /\ pl' = IdlePipeline
  /\ results' = Append(results, [ok |-> FALSE, assets |-> <<>>])
  /\ UNCHANGED <<req, plan, cache, heap, log, run, done, configRequests, sr, np, shake>>

\* runPipeline: a commit of writeToCache(assets, pipeline.configs) rejects,
\* and run() with it
WriteRejects ==
  /\ phase = "running" /\ stack # <<>> /\ Top.pc = "transform" /\ pl.pc = "returned"
  /\ \E failed \in (SUBSET (1..Len(pl.out))) \ {{}} :
       LET w == WriteToCacheRejected(heap, pl.out, Top.pipe, Top.init, failed)
       IN  /\ heap' = w.heap
           /\ cache' = w.cache
           /\ log' = log \o w.events
  /\ phase' = "failed"
  /\ stack' = <<>>
  /\ pl' = IdlePipeline
  /\ results' = Append(results, [ok |-> FALSE, assets |-> <<>>])
  /\ UNCHANGED <<req, plan, run, done, configRequests, sr, np, shake>>

Routed(a, via, loaded, out) ==
  [asset |-> a, type |-> heap[a].type, via |-> via, loaded |-> loaded, out |-> out]

\* the loop over assets: the asset has the initial type and is final
LoopKeep ==
  /\ phase = "running" /\ stack # <<>> /\ Top.pc = "loop" /\ Top.i <= Len(Top.assets)
  /\ LET f == Top
         a == f.assets[f.i]
     IN  /\ heap[a].type = f.initialType
         /\ stack' = SetTop([f EXCEPT !.finalAssets = Append(@, a), !.i = @ + 1,
                                      !.route = Append(@, Routed(a, "kept", <<>>, <<a>>))])
  /\ UNCHANGED <<req, plan, cache, heap, pl, log, run, phase, results, done, configRequests, sr, np, shake>>

\* the loop over assets: the type changed but loadNextPipeline gave no pipeline
LoopSamePipeline ==
  /\ phase = "running" /\ stack # <<>> /\ Top.pc = "loop" /\ Top.i <= Len(Top.assets)
  /\ LET f == Top
         a == f.assets[f.i]
         nextPipeline == LoadNextPipeline(FilePath, heap[a].type, f.pipe)
     IN  /\ heap[a].type # f.initialType
         /\ nextPipeline = <<>>
         /\ stack' = SetTop([f EXCEPT !.finalAssets = Append(@, a), !.i = @ + 1,
                                      !.route = Append(@, Routed(a, "same", <<>>, <<a>>))])
         /\ LET c == LoadPipelineConfigs(configRequests,
                                         NextFilePath(FilePath, heap[a].type), run, f.init)
            IN  /\ configRequests' = c.configRequests
                /\ log' = log \o c.events
  /\ UNCHANGED <<req, plan, cache, heap, pl, run, phase, results, done, sr, np, shake>>

\* the loop over assets: the asset goes through runPipeline(nextPipeline, asset)
LoopRecurse ==
  /\ phase = "running" /\ stack # <<>> /\ Top.pc = "loop" /\ Top.i <= Len(Top.assets)
  /\ Len(stack) < MaxDepth
  /\ LET f == Top
         a == f.assets[f.i]
         nextPipeline == LoadNextPipeline(FilePath, heap[a].type, f.pipe)
     IN  /\ heap[a].type # f.initialType
         /\ nextPipeline # <<>>
         /\ stack' = Append(SetTop([f EXCEPT !.pc = "call"]),
                            Frame(nextPipeline, a, heap[a].type))
         /\ LET c == LoadPipelineConfigs(configRequests,
                                         NextFilePath(FilePath, heap[a].type), run, f.init)
            IN  /\ configRequests' = c.configRequests
                /\ log' = log \o c.events
  /\ UNCHANGED <<req, plan, cache, heap, pl, run, phase, results, done, sr, np, shake>>

\* the innermost runPipeline returns the list out, by its return statement
\* how: to run(), which returns it, or to the loop of the calling runPipeline
Return(h, out, how) ==
  /\ done' = done \cup {[run |-> run, depth |-> Len(stack), how |-> how, frame |-> Top,
                           out |-> out]}
  /\ IF Len(stack) = 1
     THEN /\ stack' = <<>>
          /\ phase' = "done"
          /\ results' = Append(results, [ok |-> TRUE,
                                          assets |-> [i \in 1..Len(out) |-> h[out[i]]]])
     ELSE LET g == stack[Len(stack) - 1]
              a == g.assets[g.i]
          IN  /\ stack' = SubSeq(stack, 1, Len(stack) - 2) \o
                    <<[g EXCEPT !.pc = "loop", !.finalAssets = @ \o out, !.i = @ + 1,
                                !.route = Append(@, [asset |-> a, type |-> Top.initialType,
                                                     via |-> "redispatch",
                                                     loaded |-> Top.pipe, out |-> out])]>>
              /\ UNCHANGED <<phase, results>>

\* runPipeline: no postProcess is registered: the final assets are returned
ReturnFinal ==
  /\ phase = "running" /\ stack # <<>> /\ Top.pc = "loop" /\ Top.i > Len(Top.assets)
  /\ Top.post.name = "none"
  /\ Return(heap, Top.finalAssets, "final")
  /\ UNCHANGED <<req, plan, cache, heap, pl, log, run, configRequests, sr, np, shake>>

\* runPipeline: the lookup over the final assets hits: the cached list is returned
PostHit ==
  /\ phase = "running" /\ stack # <<>> /\ Top.pc = "loop" /\ Top.i > Len(Top.assets)
  /\ Top.post.name # "none"
  /\ LET f == Top
         r == ReadFromCache(heap, f.finalAssets, f.pipe, f.init)
         n == Len(heap)
     IN  /\ r.hit
         /\ heap' = heap \o r.val
         /\ log' = log \o r.events
         /\ Return(heap', [i \in 1..Len(r.val) |-> n + i], "postHit")
  /\ UNCHANGED <<req, plan, cache, pl, run, configRequests, sr, np, shake>>

\* the postProcess hooks that resolve to null
PostProcessReturnsNull(name) == name = "postnull"

\* transformer.postProcess({assets}): one result for each asset it is given
PostProcessResults(h, ids, name) ==
  [i \in 1..Len(ids) |->
     [type |-> h[ids[i]].type, content |-> Append(h[ids[i]].content, "post"),
      ast |-> NoAst, map |-> NoMap]]

\* runPipeline: the lookup misses: postProcess runs over assets, and its
\* results are written to the cache and returned
PostMiss ==
  /\ phase = "running" /\ stack # <<>> /\ Top.pc = "loop" /\ Top.i > Len(Top.assets)
  /\ Top.post.name # "none"
  /\ LET f == Top
         r == ReadFromCache(heap, f.finalAssets, f.pipe, f.init)
         n == Len(heap)
         res == PostProcessResults(heap, f.assets, f.post.name)
         kids == [i \in 1..Len(res) |-> CreateChildAsset(res[i])]
         ids == [i \in 1..Len(res) |-> n + i]
         w == WriteToCache(heap \o kids, ids, f.pipe, f.init)
         call == [DEv("postProcess", f.init, 0) EXCEPT !.name = f.post.name]
     IN  /\ ~r.hit
         /\ ~PostProcessReturnsNull(f.post.name)
         /\ heap' = w.heap
         /\ cache' = w.cache
         /\ log' = log \o r.events \o <<call>> \o w.events
         /\ Return(heap', ids, "postProcess")
  /\ UNCHANGED <<req, plan, pl, run, configRequests, sr, np, shake>>

\* runPipeline: the lookup misses and the postProcess hook resolves to null:
\* the closure's results.map(...) throws, and run() rejects
PostProcessThrows ==
  /\ phase = "running" /\ stack # <<>> /\ Top.pc = "loop" /\ Top.i > Len(Top.assets)
  /\ Top.post.name # "none"
  /\ LET f == Top
         r == ReadFromCache(heap, f.finalAssets, f.pipe, f.init)
         call == [DEv("postProcess", f.init, 0) EXCEPT !.name = f.post.name, !.type = "null"]
     IN  /\ ~r.hit
         /\ PostProcessReturnsNull(f.post.name)
         /\ log' = log \o r.events \o <<call>>
  /\ phase' = "failed"
  /\ stack' = <<>>
  /\ results' = Append(results, [ok |-> FALSE, assets |-> <<>>])
  /\ UNCHANGED <<req, plan, cache, heap, pl, run, done, configRequests, sr, np, shake>>

\* runPipeline: postProcess ran, and a commit of
\* writeToCache(processedFinalAssets, pipeline.configs) rejects
PostWriteRejects ==
  /\ phase = "running" /\ stack # <<>> /\ Top.pc = "loop" /\ Top.i > Len(Top.assets)
  /\ Top.post.name # "none"
  /\ LET f == Top
         r == ReadFromCache(heap, f.finalAssets, f.pipe, f.init)
         n == Len(heap)
         res == PostProcessResults(heap, f.assets, f.post.name)
         kids == [i \in 1..Len(res) |-> CreateChildAsset(res[i])]
         ids == [i \in 1..Len(res) |-> n + i]
         call == [DEv("postProcess", f.init, 0) EXCEPT !.name = f.post.name]
     IN  /\ ~r.hit
         /\ ~PostProcessReturnsNull(f.post.name)
         /\ \E failed \in (SUBSET (1..Len(ids))) \ {{}} :
              LET w == WriteToCacheRejected(heap \o kids, ids, f.pipe, f.init, failed)
              IN  /\ heap' = w.heap
                  /\ cache' = w.cache
                  /\ log' = log \o r.events \o <<call>> \o w.events
  /\ phase' = "failed"
  /\ stack' = <<>>
  /\ results' = Append(results, [ok |-> FALSE, assets |-> <<>>])
  /\ UNCHANGED <<req, plan, pl, run, done, configRequests, sr, np, shake>>

Init ==
  /\ req \in [ext : {"ts"}, inline : BOOLEAN, cacheOn : BOOLEAN]
  /\ plan \in [Types -> DriverPipelines]
  /\ cache = {}
  /\ heap = <<>>
  /\ stack = <<>>
  /\ pl = IdlePipeline
  /\ log = <<>>
  /\ run = 0
  /\ phase = "idle"
  /\ results = <<>>
  /\ done = {}
  /\ configRequests = <<>>
  /\ sr = IdleSummary
  /\ np = IdleNext
  /\ shake = IdleShake

Next ==
  \/ Run
  \/ ReadPreHit
  \/ ReadPreMiss
  \/ StageSkip
  \/ StageRun
  \/ StageNext
  \/ FinalizeStart
  \/ FinalizeComplete
  \/ TransformReturn
  \/ AfterTransform
  \/ TransformThrows
  \/ WriteRejects
  \/ LoopKeep
  \/ LoopSamePipeline
  \/ LoopRecurse
  \/ ReturnFinal
  \/ PostHit
  \/ PostMiss
  \/ PostProcessThrows
  \/ PostWriteRejects

Spec == Init /\ [][Next]_vars

\* ------------------------------------------------------ claims of Spec
\* the runPipeline invocations, in progress or returned, with their run
Invocations ==
  {[run |-> run, frame |-> stack[d]] : d \in 1..Len(stack)}
    \cup {[run |-> y.run, frame |-> y.frame] : y \in done}

\* the lists a route put into finalAssets, concatenated
RouteOut(route) ==
  LET F[i \in 0..Len(route)] == IF i = 0 THEN <<>> ELSE F[i - 1] \o route[i].out
  IN  F[Len(route)]

\* C1: with the cache on and no inline code, a run() on an empty cache and the
\* same request run again on the cache it left return the same asset list,
\* and the second run calls no transformer's transform hook.
CacheEquivalence ==
  ((req.cacheOn /\ ~req.inline) /\ Len(results) >= 1 /\ results[1].ok) =>
    /\ \A i \in 1..Len(log) : log[i].run = 2 => log[i].ev # "transform"
    /\ Len(results) >= 2 => results[2] = results[1]

\* C4: an asset of a pipeline's result whose type is not the initial type is
\* run through the pipeline of the synthetic path when that pipeline's id is
\* not the current one's, and the assets that run returns, not the asset, take
\* its place in the output; when the ids are equal the asset itself is put in
\* the output and no stage is applied to it.
TypeChangeDispatch ==
  \A x \in Invocations :
    LET f == x.frame
    IN  /\ f.pc # "call" => f.finalAssets = RouteOut(f.route)
        /\ \A p \in 1..Len(f.route) :
             LET e == f.route[p]
                 next == LoadPipeline(NextFilePath(FilePath, e.type))
             IN  /\ e.asset = f.assets[p]
                 /\ (e.type # f.initialType /\ PipelineId(next) # PipelineId(f.pipe)) =>
                      /\ e.via = "redispatch"
                      /\ \E y \in done :
                           /\ y.run = x.run /\ y.frame.init = e.asset
                           /\ y.frame.pipe = next /\ y.out = e.out
                      /\ \A q \in 1..Len(e.out) : e.out[q] # e.asset
                 /\ (e.type # f.initialType /\ PipelineId(next) = PipelineId(f.pipe)) =>
                      /\ e.out = <<e.asset>>
                      /\ \A i \in 1..Len(log) :
                           ~(/\ log[i].run = x.run /\ log[i].asset = e.asset
                             /\ log[i].ev \in {"parse", "transform"})

\* C4 happens: a type-changed asset went through another pipeline and that
\* run's assets are in the output of a runPipeline that returned
TypeChangeDispatchWitness ==
  \E y \in done : \E p \in 1..Len(y.frame.route) :
    /\ y.frame.route[p].via = "redispatch"
    /\ Len(y.frame.route[p].out) > 0
    /\ y.frame.route[p].type # y.frame.initialType

\* C5: with options.cache false or inline code no lookup reads the cache, so
\* every runPipeline runs transform, and postProcess when one is registered;
\* the assets of every pipeline result are still committed and cache.set.
CacheDisable ==
  (req.cacheOn = FALSE \/ req.inline) =>
    /\ \A i \in 1..Len(log) : log[i].ev \notin {"cacheGet", "getCode"}
    /\ \A x \in Invocations :
         LET f == x.frame
             Logged(ev) == {i \in 1..Len(log) :
                              log[i].run = x.run /\ log[i].pipe = f.init /\ log[i].ev = ev}
         IN  /\ ~f.hit
             /\ f.pc \in {"loop", "call"} =>
                  /\ f.wrote
                  /\ \E i \in Logged("transform") : \E j \in Logged("cacheSet") : i < j
                  /\ \A q \in 1..Len(f.assets) :
                       \E i \in Logged("commit") : log[i].asset = f.assets[q]
    /\ \A d \in 1..Len(stack) : \A q \in 1..Len(stack[d].assets) :
         heap[stack[d].assets[q]].committed
    /\ \A y \in done :
         y.frame.post.name # "none" =>
           /\ y.how = "postProcess"
           /\ \E i \in 1..Len(log) :
                /\ log[i].run = y.run /\ log[i].pipe = y.frame.init
                /\ log[i].ev = "postProcess"
           /\ Cardinality({i \in 1..Len(log) :
                             /\ log[i].run = y.run /\ log[i].pipe = y.frame.init
                             /\ log[i].ev = "cacheSet"}) = 2

\* C5 happens: with the cache off a runPipeline that registered a postProcess
\* has returned, in a second run over a cache that holds entries
CacheDisableWitness ==
  /\ req.cacheOn = FALSE \/ req.inline
  /\ cache # {}
  /\ \E y \in done : y.run = 2 /\ y.frame.post.name # "none" /\ y.frame.assets # <<>>

\* C6: after a pre-pipeline miss the result of pipeline.transform is in the
\* cache under the key the lookup computed over [initialAsset] and the configs.
WrittenUnderLookupKey ==
  \A d \in 1..Len(stack) :
    (stack[d].looked /\ stack[d].wrote) => CacheHas(cache, stack[d].preKey)

\* C9: once an asset is committed no operation changes it: a mutation through
\* a view of it fails and leaves it as it was.
PostCommitImmutable ==
  [][\A a \in 1..Len(heap) :
       (run' = run /\ a <= Len(heap') /\ heap[a].committed) => heap'[a] = heap[a]]_vars

\* C10: every asset in a list run() returned is committed.
ReturnedAssetsCommitted ==
  \A r \in 1..Len(results) :
    results[r].ok => \A i \in 1..Len(results[r].assets) : results[r].assets[i].committed

\* C10 happens: a run returned assets it read from the cache, after one that
\* returned assets through a re-dispatch
ReturnedAssetsCommittedWitness ==
  /\ Len(results) = 2 /\ results[2].ok /\ results[2].assets # <<>>
  /\ results[1].ok /\ results[1].assets # <<>>
  /\ \E y \in done : y.run = 2 /\ y.frame.hit
  /\ \E y \in done : \E p \in 1..Len(y.frame.route) :
       y.run = 1 /\ y.frame.route[p].via = "redispatch"

\* the host loadConfig calls of the current run
IsHostCall(e) == e.ev = "loadConfig" /\ e.run = run

\* C13: the configRequests of a run hold exactly one entry for each call of
\* the host's loadConfig made in that run, in call order, the loads made for a
\* next pipeline whose id is the current one's included.
ConfigRequestsRecorded ==
  phase \in {"running", "done"} =>
    LET calls == SelectSeq(log, IsHostCall)
    IN  /\ Len(configRequests) = Len(calls)
        /\ \A i \in 1..Len(calls) :
             /\ configRequests[i].plugin = calls[i].name
             /\ PathType(configRequests[i].filePath) = calls[i].type
        /\ Len(calls) >= 1

\* C13 happens: a run returned after it loaded a next pipeline whose id was
\* the current one's, and a plugin's own config as well as the parcel config
ConfigRequestsRecordedWitness ==
  /\ phase = "done"
  /\ \E y \in done : \E p \in 1..Len(y.frame.route) :
       y.run = run /\ y.frame.route[p].via = "same"
  /\ \E i \in 1..Len(configRequests) : configRequests[i].plugin # "parcel"
  /\ \E i \in 1..Len(configRequests) : PathType(configRequests[i].filePath) # req.ext

CacheNotPolluted ==
  [][/\ (phase = "running" /\ phase' = "failed") =>
          /\ cache' = cache
          /\ \A i \in (Len(log) + 1)..Len(log') : log'[i].ev # "cacheSet"
     /\ \A i \in (Len(log) + 1)..Len(log') :
          log'[i].ev = "cacheSet" =>
            /\ phase' # "failed"
            /\ \/ stack # <<>> /\ Top.pc = "transform" /\ pl.pc = "returned"
               \/ \E j \in (Len(log) + 1)..(i - 1) :
                    log'[j].ev = "postProcess" /\ log'[j].type # "null"
            /\ \A e \in cache' \ cache : \A q \in 1..Len(e.val) : e.val[q].committed
            /\ \A j \in (Len(log) + 1)..Len(log') : log'[j].ev # "commitFail"]_vars

\* C16 happens: a run failed on a rejected commit after an earlier pipeline
\* result of the same run was written, and only that one is in the cache
CacheNotPollutedWitness ==
  /\ phase = "failed" /\ Cardinality(cache) = 1
  /\ \E i \in 1..Len(log) : \E j \in 1..Len(log) :
       /\ i < j /\ log[i].run = run /\ log[j].run = run
       /\ log[i].ev = "cacheSet" /\ log[j].ev = "commitFail"

\* C18: on a miss of the second lookup postProcess is called once, with the
\* list the pipeline's transform or its cache entry gave (not the final list
\* the key was computed over), and the assets made from its result, or the
\* empty list when it resolves to null, are what runPipeline caches and returns.
PostProcessInput ==
  \A i \in 1..Len(log) :
    (/\ log[i].ev = "postProcess" /\ log[i].run = run
     /\ \A j \in 1..Len(log) : ~(log[j].ev = "commitFail" /\ log[j].run = run)) =>
      /\ \A j \in 1..Len(log) :
           (log[j].ev = "postProcess" /\ log[j].run = run /\ log[j].pipe = log[i].pipe)
             => j = i
      /\ \E y \in done :
           /\ y.run = run /\ y.frame.init = log[i].pipe /\ y.how = "postProcess"
           /\ LET res == IF log[i].type = "null" THEN <<>>
                         ELSE PostProcessResults(heap, y.frame.assets, log[i].name)
                  out == [q \in 1..Len(y.out) |-> heap[y.out[q]]]
              IN  /\ out = [q \in 1..Len(res) |-> Commit(CreateChildAsset(res[q]))]
                  /\ CacheHas(cache, GetCacheKey(heap, y.out, y.frame.pipe))
                  /\ CacheGet(cache, GetCacheKey(heap, y.out, y.frame.pipe)) = out

\* C19: whenever a cache lookup hits, getCode has been called on each asset
\* of the array loaded from the cache when the lookup returns.
CacheHitWarming ==
  /\ \A x \in Invocations :
       x.frame.hit =>
         \A q \in 1..Len(x.frame.assets) :
           \E i \in 1..Len(log) :
             /\ log[i].ev = "getCode" /\ log[i].run = x.run
             /\ log[i].pipe = x.frame.init /\ log[i].asset = x.frame.assets[q]
  /\ \A y \in done :
       y.how = "postHit" =>
         \A q \in 1..Len(y.out) :
           \E i \in 1..Len(log) :
             /\ log[i].ev = "getCode" /\ log[i].run = y.run
             /\ log[i].pipe = y.frame.init /\ log[i].asset = y.out[q]

\* whether a stage of the pipeline provides postProcess
HasPostProcess(pipe) == \E k \in 1..Len(pipe) : Transformer(pipe[k]).post

\* whether the asset was made from a result of a postProcess hook
PostProcessed(asset) ==
  asset.content # <<>> /\ asset.content[Len(asset.content)] = "post"

\* C23: a runPipeline over a pipeline with a stage that provides postProcess
\* returns the post-processed list, from the second lookup or from calling
\* postProcess, whether the pre-pipeline lookup hit or missed; a pre-pipeline
\* hit never makes it return the assets that were not post-processed.
PostProcessedReturned ==
  \A y \in done :
    (y.run = run /\ HasPostProcess(y.frame.pipe)) =>
      /\ y.how \in {"postHit", "postProcess"}
      /\ \A q \in 1..Len(y.out) : PostProcessed(heap[y.out[q]])

\* ------------------------------------- SpecL: Transformation.run, fair
\* every await of run() resolves: each hook, cache access and config load
\* returns, so a step of the program that can be taken is taken
SpecL == Init /\ [][Next]_vars /\ WF_vars(Next)

InitP ==
  /\ req = [ext |-> "ts", inline |-> FALSE, cacheOn |-> FALSE]
  /\ \E pipe \in SeqsUpTo(PipelineNames, MaxStages) :
       /\ plan = [type \in Types |-> pipe]
       /\ pl = BeginTransform(pipe, 1, "ts")
  /\ cache = {}
  /\ heap = <<LoadAsset("ts")>>
  /\ stack = <<>>
  /\ log = <<>>
  /\ run = 1
  /\ phase = "running"
  /\ results = <<>>
  /\ done = {}
  /\ configRequests = <<>>
  /\ sr = IdleSummary
  /\ np = IdleNext
  /\ shake = IdleShake

NextP ==
  \/ StageSkip
  \/ StageRun
  \/ StageNext
  \/ FinalizeStart
  \/ FinalizeComplete
  \/ TransformReturn

SpecP == InitP /\ [][NextP]_vars

\* ------------------------------------------------------ claims of SpecP
\* the hook calls made on asset a by the Pipeline.transform in progress
CallsOn(a) ==
  {i \in 1..Len(log) : /\ log[i].run = run /\ log[i].pipe = pl.init
                        /\ log[i].asset = a /\ log[i].ev # "child"}

\* the children a stage of the Pipeline.transform in progress created
Births ==
  {i \in 1..Len(log) : log[i].run = run /\ log[i].pipe = pl.init /\ log[i].ev = "child"}

\* whether the stage after the one that created the child of birth event e
\* declares canReuseAST and it returns true for the child's AST
NextStageReuses(e) ==
  /\ e.stage < Len(pl.pipe)
  /\ Transformer(pl.pipe[e.stage + 1]).declares
  /\ CanReuseAST(Transformer(pl.pipe[e.stage + 1]), e.ast)

\* C2: when stage i leaves an AST on an asset and stage i+1 declares
\* canReuseAST and it returns true for it, neither a generate nor a parse is
\* called for the asset before stage i+1's transform, which gets the same AST.
AstReuseAccepted ==
  \A b \in Births :
    (log[b].ast # NoAst /\ NextStageReuses(log[b])) =>
      \A i \in CallsOn(log[b].asset) :
        /\ log[i].ev # "parse"
        /\ log[i].ev = "generate" => log[i].stage = Len(pl.pipe) + 1
        /\ log[i].ev = "transform" =>
             /\ log[i].stage = log[b].stage + 1
             /\ log[i].ast = log[b].ast
             /\ \A m \in CallsOn(log[b].asset) : m < i => log[m].ev = "canReuseAST"

\* C2 happens: the second stage's transform ran on an asset whose AST the
\* first stage left and the second accepted, and the pipeline returned
AstReuseAcceptedWitness ==
  /\ pl.pc = "returned"
  /\ \E b \in Births : \E i \in CallsOn(log[b].asset) :
       /\ log[b].ast # NoAst /\ NextStageReuses(log[b])
       /\ log[i].ev = "transform" /\ log[i].ast = log[b].ast

\* C3: when stage i leaves an AST on an asset and stage i+1 does not declare
\* canReuseAST or it returns false, stage i's generate is called exactly once
\* for the asset before stage i+1's transform, the code it emits becomes the
\* asset's content, the AST is null at stage i+1's parse, and stage i+1's
\* transform does not get stage i's AST.
AstReuseRejected ==
  \A b \in Births : \A i \in CallsOn(log[b].asset) :
    (/\ log[b].ast # NoAst /\ ~NextStageReuses(log[b])
     /\ log[i].ev = "transform" /\ log[i].stage = log[b].stage + 1) =>
      LET before == {m \in CallsOn(log[b].asset) : m < i}
          gens == {m \in before : log[m].ev = "generate"}
      IN  /\ Cardinality(gens) = 1
          /\ \A m \in gens :
               /\ log[m].gen = log[b].stage
               /\ log[m].name = pl.pipe[log[b].stage]
          /\ heap[log[b].asset].content = GenCode(pl.pipe[log[b].stage], log[b].ast)
          /\ \A m \in before : log[m].ev = "parse" => log[m].ast = NoAst
          /\ log[i].ast # log[b].ast

\* the stage whose transform completed last in the Pipeline.transform in progress
LastTransformStage ==
  LET calls == {i \in 1..Len(log) :
                  log[i].run = run /\ log[i].pipe = pl.init /\ log[i].ev = "transform"}
  IN  log[CHOOSE i \in calls : \A j \in calls : j <= i].stage

\* C7: when Pipeline.transform returns all stages have run and the remembered
\* generator was called exactly once for each returned asset that carries an
\* AST, and its code and map are on the asset, and never for a returned asset
\* without one; with no regeneration between stages these are the only
\* generate calls of the run.
EndOfPipelineFinalization ==
  pl.pc = "returned" =>
    LET gens == {i \in 1..Len(log) :
                   log[i].run = run /\ log[i].pipe = pl.init /\ log[i].ev = "generate"}
        between == {i \in gens : log[i].stage <= Len(pl.pipe)}
        withAst == {q \in 1..Len(pl.out) : heap[pl.out[q]].ast # NoAst}
    IN  /\ pl.k = Len(pl.pipe) + 1
        /\ \A q \in 1..Len(pl.out) :
             LET a == pl.out[q]
                 on == {i \in gens : log[i].asset = a}
             IN  IF heap[a].ast # NoAst
                 THEN /\ Cardinality(on) = 1
                      /\ \A i \in on :
                           /\ log[i].stage = Len(pl.pipe) + 1
                           /\ log[i].gen = LastTransformStage
                           /\ log[i].ast = heap[a].ast
                      /\ heap[a].content = GenCode(pl.pipe[LastTransformStage], heap[a].ast)
                      /\ heap[a].map = GenMap(pl.pipe[LastTransformStage], heap[a].ast)
                 ELSE on = {}
        /\ between = {} => Cardinality(gens) = Cardinality(withAst)

\* C7 happens: a pipeline of two stages returned an asset with an AST,
\* finalized, and one without
EndOfPipelineFinalizationWitness ==
  /\ pl.pc = "returned" /\ Len(pl.pipe) = 2
  /\ \E q \in 1..Len(pl.out) :
       /\ heap[pl.out[q]].ast # NoAst
       /\ heap[pl.out[q]].map # NoMap
  /\ \E q \in 1..Len(pl.out) : heap[pl.out[q]].ast = NoAst

\* what must hold of asset a from the event at index at on, when its type is
\* no longer the pipeline's: no parse, transform or generate between stages
\* on it, no child of it, and it is in the list transform returns
Exits(a, at) ==
  /\ \A i \in CallsOn(a) :
       i > at => /\ log[i].ev \notin {"parse", "transform"}
                 /\ log[i].ev = "generate" => log[i].stage = Len(pl.pipe) + 1
  /\ \A b \in Births : b > at => log[b].from # a
  /\ pl.pc = "returned" => \E q \in 1..Len(pl.out) : pl.out[q] = a

NoParallelHooks == Cardinality(pl.inflight) <= 1

\* the hook calls of the Pipeline.transform in progress
HookCalls ==
  {i \in 1..Len(log) :
     /\ log[i].run = run /\ log[i].pipe = pl.init
     /\ log[i].ev \in {"canReuseAST", "parse", "transform", "generate"}}

\* C17: the stages run in the configured order, no hook of a later stage is
\* called before stage N has been applied to every asset of its working set,
\* and within a stage the assets are taken in the order in which the
\* transform calls of the stage before returned their results.
StageOrdering ==
  /\ \A i \in HookCalls : \A j \in HookCalls :
       i < j => /\ log[i].stage <= log[j].stage
                /\ log[i].stage = log[j].stage => log[i].asset <= log[j].asset
  /\ \A i \in HookCalls :
       log[i].ev \in {"canReuseAST", "parse", "transform"} =>
         log[i].stage <= Len(pl.pipe) /\ log[i].name = pl.pipe[log[i].stage]
  /\ \A b \in Births : \A c \in Births :
       b < c => /\ log[b].asset < log[c].asset
                /\ log[b].stage <= log[c].stage
  /\ \A b \in Births : \A j \in HookCalls :
       (log[b].type = pl.initialType /\ log[j].stage > log[b].stage + 1) =>
         \E i \in HookCalls :
           /\ i < j /\ log[i].ev = "transform"
           /\ log[i].asset = log[b].asset /\ log[i].stage = log[b].stage + 1

\* C17 happens: the second stage was applied to two assets the first stage
\* returned, and transform returned
StageOrderingWitness ==
  /\ pl.pc = "returned"
  /\ \E i \in HookCalls : \E j \in HookCalls :
       /\ log[i].ev = "transform" /\ log[j].ev = "transform"
       /\ log[i].stage = 2 /\ log[j].stage = 2 /\ log[i].asset # log[j].asset
\* how many times asset a is in the list transform returned
TimesReturned(a) == Cardinality({q \in 1..Len(pl.out) : pl.out[q] = a})

\* C20 as stated: an asset whose type changed on the last stage is pushed to
\* the set-aside list and to the last stage's result list, and so is twice in
\* the array Pipeline.transform returns.
LastStageDivergedTwice ==
  pl.pc = "returned" =>
    \A b \in Births :
      (log[b].stage = Len(pl.pipe) /\ log[b].type # pl.initialType) =>
        TimesReturned(log[b].asset) = 2

\* C20 amended: an asset whose type changed on the last stage is pushed to
\* the last stage's result list only, no stage loop being left to set it
\* aside, and it is once in the array Pipeline.transform returns, as is every
\* asset of that array.
LastStageDivergedOnce ==
  pl.pc = "returned" =>
    /\ \A b \in Births :
         (log[b].stage = Len(pl.pipe) /\ log[b].type # pl.initialType) =>
           /\ TimesReturned(log[b].asset) = 1
           /\ \E q \in 1..Len(pl.resultingAssets) : pl.resultingAssets[q] = log[b].asset
    /\ \A q \in 1..Len(pl.out) : TimesReturned(pl.out[q]) = 1

\* C20 happens: transform returned an asset that the last of two stages gave
\* another type, after an asset the first stage gave another type
LastStageDivergedOnceWitness ==
  /\ pl.pc = "returned" /\ Len(pl.pipe) = 2
  /\ \E b \in Births : log[b].stage = 2 /\ log[b].type # pl.initialType
  /\ \E b \in Births : log[b].stage = 1 /\ log[b].type # pl.initialType

\* the transform calls of the Pipeline.transform in progress that completed
\* before the event at index i
TransformsBefore(i) ==
  {j \in 1..Len(log) :
     /\ j < i /\ log[j].run = run /\ log[j].pipe = pl.init /\ log[j].ev = "transform"}

\* the stage of the last transform call completed before the event at index
\* i, 0 when there is none
RecentStage(i) ==
  IF TransformsBefore(i) = {} THEN 0
  ELSE log[CHOOSE j \in TransformsBefore(i) : \A m \in TransformsBefore(i) : m <= j].stage

MaxChunks == 3

InitS ==
  /\ req \in [ext : {"ts"}, inline : BOOLEAN, cacheOn : {FALSE}]
  /\ plan = [type \in Types |-> <<"raw">>]
  /\ cache = {}
  /\ heap = <<>>
  /\ stack = <<>>
  /\ pl = IdlePipeline
  /\ log = <<>>
  /\ run = 0
  /\ phase = "idle"
  /\ results = <<>>
  /\ done = {}
  /\ configRequests = <<>>
  /\ \E file \in Files(MaxChunks) :
       sr = IF req.inline
            THEN [IdleSummary EXCEPT !.pc = "code", !.file = file]
            ELSE BeginSummary(file)
  /\ np = IdleNext
  /\ shake = IdleShake

NextS ==
  \/ TapBuffer
  \/ TapOverflow
  \/ TapStreamed
  \/ StreamEnd
  \/ SummarizeCode

SpecS == InitS /\ [][NextS]_vars

\* C11 as stated, with a threshold of 5 MiB: for a file request the size is
\* the number of bytes read, and the content is a buffer of all the bytes read
\* iff the size never exceeded 5 * 1024 * 1024, and a stream otherwise.
BufferedUpToFiveMiB ==
  (~req.inline /\ sr.pc \in {"reading", "done"}) =>
    /\ sr.size = SizeOf(SubSeq(sr.file, 1, sr.pos))
    /\ sr.kind = "buffer" <=> sr.size <= 5 * 1024 * 1024
    /\ sr.kind = "buffer" => sr.buffer = BytesOf(SubSeq(sr.file, 1, sr.pos))
    /\ sr.kind # "buffer" => sr.kind = "stream"

\* C11 amended, with the threshold of the code: for a file request and any
\* division into chunks the size is the number of bytes read, and the content
\* is a buffer of exactly the bytes read iff the size never exceeded
\* BUFFER_LIMIT = 5,000,000 bytes, and a stream over the path otherwise; as
\* the size only grows, a stream never becomes a buffer again.
BufferedUpToLimit ==
  (~req.inline /\ sr.pc \in {"reading", "done"}) =>
    /\ sr.size = SizeOf(SubSeq(sr.file, 1, sr.pos))
    /\ sr.kind = "buffer" <=> sr.size <= 5000000
    /\ sr.kind = "buffer" => sr.buffer = BytesOf(SubSeq(sr.file, 1, sr.pos))
    /\ sr.kind # "buffer" => sr.kind = "stream" /\ sr.buffer = <<>>
    /\ sr.pc = "done" => sr.pos = Len(sr.file)

\* C11 happens: a file read in three chunks reached the limit exactly with
\* its second chunk, still buffered, and went over it with the third
BufferedUpToLimitWitness ==
  /\ ~req.inline /\ sr.pc = "done" /\ Len(sr.file) = 3
  /\ SizeOf(SubSeq(sr.file, 1, 2)) = BUFFER_LIMIT
  /\ sr.size > BUFFER_LIMIT /\ sr.kind = "stream"

\* C12: for a file request the hash summarizeRequest returns is the hash of
\* all the bytes of the file in order, whether or not the content was switched
\* to a stream while reading.
HashOfAllBytes ==
  (~req.inline /\ sr.pc = "done") => sr.hash = Hash(BytesOf(sr.file))

\* C12 happens: the content was switched to a stream by the second of three
\* chunks, none of them empty, and the read ended
HashOfAllBytesWitness ==
  /\ ~req.inline /\ sr.pc = "done" /\ sr.kind = "stream" /\ Len(sr.file) = 3
  /\ sr.file[1].len <= BUFFER_LIMIT
  /\ \A i \in 1..3 : sr.file[i].len > 0

\* ------------------------------------------- SpecN: loadNextPipeline
MaxPath == 4

\* the characters of a file path
PathChars == {"a", ".", "/", "ts"}

\* the paths of files: they do not end in "/"
Paths(n) == {path \in SeqsUpTo(PathChars, n) : path[Len(path)] # "/"}

InitN ==
  /\ req = [ext |-> "ts", inline |-> FALSE, cacheOn |-> FALSE]
  /\ plan \in [Types -> {<<"raw">>, <<"parser">>}]
  /\ cache = {}
  /\ heap = <<>>
  /\ stack = <<>>
  /\ pl = IdlePipeline
  /\ log = <<>>
  /\ run = 0
  /\ phase = "idle"
  /\ results = <<>>
  /\ done = {}
  /\ configRequests = <<>>
  /\ sr = IdleSummary
  /\ \E filePath \in Paths(MaxPath) : \E nextType \in Types :
       np = [IdleNext EXCEPT !.pc = "call", !.filePath = filePath, !.nextType = nextType,
                             !.current = plan["ts"]]
  /\ shake = IdleShake

NextN ==
  \/ NextPipelineSame
  \/ NextPipelineOther

SpecN == InitN /\ [][NextN]_vars

\* the path without its extension: the whole path when it has none
Stem(path) ==
  IF Extname(path) = <<>> THEN path
  ELSE SubSeq(path, 1, Len(path) - Len(Extname(path)))

\* C22: for every file path and new type, loadNextPipeline loads the pipeline
\* of the path made of the original stem, ".", and the new type, the stem of
\* a path with no extension being the whole path.
SyntheticNextPath ==
  np.pc = "returned" => np.loaded = Stem(np.filePath) \o <<".", np.nextType>>

\* ------------------------------------------------- SpecT: treeShake
InitT ==
  /\ req = [ext |-> "ts", inline |-> FALSE, cacheOn |-> FALSE]
  /\ plan = [type \in Types |-> <<"raw">>]
  /\ cache = {}
  /\ heap = <<>>
  /\ stack = <<>>
  /\ pl = IdlePipeline
  /\ log = <<>>
  /\ run = 0
  /\ phase = "idle"
  /\ results = <<>>
  /\ done = {}
  /\ configRequests = <<>>
  /\ sr = IdleSummary
  /\ np = IdleNext
  /\ \E bindings \in Scopes(MaxStmts) : \E order \in {<<"a", "b">>, <<"b", "a">>} :
       shake = [IdleShake EXCEPT !.pc = "pass", !.bindings = bindings, !.order = order]

NextT ==
  \/ PassBegin
  \/ VisitKeep
  \/ VisitRemove
  \/ VisitOverflow
  \/ PassAgain
  \/ PassLast

\* the steps of treeShake are those of one synchronous call: it goes on
\* while it can
SpecT == InitT /\ [][NextT]_vars /\ WF_vars(NextT)

\* the number of bindings in the scope
Bound(bindings) == Cardinality({x \in ShakeNames : bindings[x].present})

\* C25: treeShake(scope) terminates for every finite scope: every
\* getUnusedBinding call returns, also for bindings referenced through
\* $parcel$exportWildcard calls that refer to one another; a pass that set
\* removed took at least one binding out of the scope; and the loop ends with
\* a pass in which nothing was removed.
TreeShakeTerminates ==
  /\ [](shake.pc # "threw")
  /\ []((shake.pc = "each" /\ shake.pos > Len(shake.keys) /\ shake.removed) =>
          Bound(shake.bindings) < shake.before)
  /\ [](shake.pc = "done" => ~shake.removed)
  /\ <>(shake.pc = "done")

====
